---- MODULE Spec2Model ----
(***************************************************************************)
(* The leave bot of zulip-hr-bot: the two webhook handlers                 *)
(* (api/holidaybot.py handler.do_POST, main.py holidaybot), the helpers    *)
(* they share (parse_date, week_range, the week selector) and the leaves   *)
(* table they read and write through one psycopg connection per request.   *)
(*                                                                         *)
(* Dates are proleptic Gregorian ordinals (datetime.date.toordinal()):     *)
(* ordinal 1 is Monday 0001-01-01, 739628 is Monday 2026-01-12.            *)
(***************************************************************************)
EXTENDS Integers, Sequences, FiniteSets, TLC

\* ------------------------------------------------------------------ bounds
\* First day of the calendar stretch the model draws dates from.
FirstDay == 739628
\* Number of consecutive days anchors and "today" are drawn from (SpecWeek).
NumDays == 15
\* Number of requests (each on its own store connection) that may be in flight.
NumSlots == 2
\* Number of requests served in one behaviour.
MaxRequests == 3

VARIABLES
    leaves,   \* the committed rows of table leaves, in commit order
    idseq,    \* last value handed out by the BIGSERIAL sequence of leaves.id
    cfg,      \* the process configuration read at import
    today,    \* datetime.now(TZ).date()
    pc,       \* per request slot: "idle", "inblock" (inside the with block), "done"
    req,      \* per slot: the request being served
    conn,     \* per slot: the state of the request's psycopg connection
    txn,      \* per slot: rows inserted on the connection and not yet committed
    resp,     \* per slot: the response the caller has received
    ret,      \* per slot: the response the handler will deliver after the with block
    served,   \* number of requests received so far
    calc      \* inputs and results of the pure week functions (SpecWeek)

vars == <<leaves, idseq, cfg, today, pc, req, conn, txn, resp, ret, served, calc>>
sysvars == <<leaves, idseq, cfg, pc, req, conn, txn, resp, ret, served>>

Slots == 1..NumSlots
Days == FirstDay..(FirstDay + NumDays - 1)

\* ------------------------------------------------------------------ tokens
\* A \S+ token of the command text: absent (the regex group did not take
\* part), a word given by its characters, or a date written in one strptime
\* format.
NoTok == [kind |-> "none", chars |-> <<>>, fmt |-> "", day |-> 0]
Word(cs) == [kind |-> "word", chars |-> cs, fmt |-> "", day |-> 0]
DateTok(f, d) == [kind |-> "date", chars |-> <<>>, fmt |-> f, day |-> d]

DATE_FORMATS == <<"%d%b%y", "%d%b%Y", "%Y-%m-%d", "%d/%m/%Y", "%d/%m/%y">>

UpperCase == <<"A","B","C","D","E","F","G","H","I","J","K","L","M",
               "N","O","P","Q","R","S","T","U","V","W","X","Y","Z">>
LowerCase == <<"a","b","c","d","e","f","g","h","i","j","k","l","m",
               "n","o","p","q","r","s","t","u","v","w","x","y","z">>

IsAlpha(c) == \E i \in 1..26 : UpperCase[i] = c \/ LowerCase[i] = c

\* str.lower() on one character, and on a token's characters.
LowerChar(c) ==
    IF \E i \in 1..26 : UpperCase[i] = c
    THEN LowerCase[CHOOSE i \in 1..26 : UpperCase[i] = c]
    ELSE c

lower(cs) == [i \in DOMAIN cs |-> LowerChar(cs[i])]

\* re.search(r"[A-Za-z]", sel): a word with a letter, or a date written with
\* a month abbreviation (%b).
HasAlpha(tok) ==
    \/ tok.kind = "word" /\ \E i \in DOMAIN tok.chars : IsAlpha(tok.chars[i])
    \/ tok.kind = "date" /\ tok.fmt \in {"%d%b%y", "%d%b%Y"}

Raise(e) == [ok |-> FALSE, err |-> e, date |-> 0]
Value(d) == [ok |-> TRUE, err |-> "", date |-> d]

\* parse_date: the first of DATE_FORMATS the token is written in gives the
\* date; a token in none of them raises ValueError("Could not parse date").
parse_date(tok) ==
    IF tok.kind = "date" /\ \E i \in DOMAIN DATE_FORMATS : DATE_FORMATS[i] = tok.fmt
    THEN Value(tok.day)
    ELSE Raise("dateparse")

\* datetime.strptime(sel, "%Y-%m-%d").date()
strptime_iso(tok) ==
    IF tok.kind = "date" /\ tok.fmt = "%Y-%m-%d"
    THEN Value(tok.day)
    ELSE Raise("strptime")

\* ------------------------------------------------------------- week window
\* date.weekday(): Monday is 0, Sunday is 6.
weekday(d) == (d + 6) % 7

week_range_sunday(anchor) ==
    LET start == anchor - ((weekday(anchor) + 1) % 7)
    IN  [start |-> start, end |-> start + 6]

\* week_range(anchor): Monday..Sunday of the anchor's week.
week_range(anchor) ==
    LET start == anchor - weekday(anchor)
    IN  [start |-> start, end |-> start + 6]

NoWin == [ok |-> FALSE, err |-> "", ws |-> 0, we |-> 0, label |-> "", of |-> 0]
Window(wr, label, of) ==
    [ok |-> TRUE, err |-> "", ws |-> wr.start, we |-> wr.end, label |-> label, of |-> of]
WinError(e) == [NoWin EXCEPT !.err = e]

\* api/holidaybot.py parse_week_selector(sel), with today as a parameter.
parse_week_selector(sel, now) ==
    IF sel.kind = "none" \/ (sel.kind = "word" /\
            lower(sel.chars) \in {<<"t","h","i","s">>, <<"c","u","r","r","e","n","t">>})
    THEN Window(week_range(now), "this week", 0)
    ELSE IF sel.kind = "word" /\ lower(sel.chars) = <<"n","e","x","t">>
    THEN Window(week_range(now + 7), "next week", 0)
    ELSE LET anchor == IF HasAlpha(sel) THEN parse_date(sel) ELSE strptime_iso(sel)
         IN  IF anchor.ok
             THEN Window(week_range(anchor.date), "week of", week_range(anchor.date).start)
             ELSE WinError("weeksel")

\* main.py parse_week(sel), with today as a parameter.
parse_week(sel, now) ==
    IF sel.kind = "none" \/ (sel.kind = "word" /\
            sel.chars \in {<<"t","h","i","s">>, <<"c","u","r","r","e","n","t">>})
    THEN Window(week_range(now), "this week", 0)
    ELSE IF sel.kind = "word" /\ sel.chars = <<"n","e","x","t">>
    THEN Window(week_range(now + 7), "next week", 0)
    ELSE LET anchor == parse_date(sel)
         IN  IF anchor.ok
             THEN Window(week_range(anchor.date), "week of", week_range(anchor.date).start)
             ELSE WinError("dateparse")

\* ------------------------------------------------------------ configuration
\* DATABASE_URL and OUTGOING_WEBHOOK_TOKEN as os.environ.get leaves them: the
\* empty string stands for None (both are only tested for truth).
Configs == [DATABASE_URL : {"", "postgres://store"},
            OUTGOING_WEBHOOK_TOKEN : {"", "s3cret"}]

\* ------------------------------------------------------------------ requests
Empty == [cmd |-> "empty", from |-> NoTok, to |-> NoTok, week |-> NoTok]
Other == [cmd |-> "other", from |-> NoTok, to |-> NoTok, week |-> NoTok]
Add(f, t) == [cmd |-> "add", from |-> f, to |-> t, week |-> NoTok]
Show(w) == [cmd |-> "show", from |-> NoTok, to |-> NoTok, week |-> w]

Iso(d) == DateTok("%Y-%m-%d", d)

\* message.sender_full_name / message.sender_id, present or absent.
NoSender == [present |-> FALSE, id |-> 0, name |-> ""]
Asha == [present |-> TRUE, id |-> 7, name |-> "Asha"]

\* A POST: json is "invalid" (the body is not JSON), "nonobject" (JSON that is
\* no object, such as a list) or "object"; token is the payload's token field
\* ("absent" when there is none); message is "object" or "nonobject" (a
\* non-empty JSON string where the message object should be); text is the
\* command text after MENTION_RE and strip(); fault names the store operation
\* that fails for this request, if any.
Post(h, j, tk, m, tx, sd, f) ==
    [method |-> "POST", handler |-> h, json |-> j, token |-> tk, message |-> m,
     text |-> tx, sender |-> sd, fault |-> f]
Get(h) ==
    [method |-> "GET", handler |-> h, json |-> "object", token |-> "absent",
     message |-> "object", text |-> Empty, sender |-> NoSender, fault |-> "none"]
NoReq == [method |-> "", handler |-> "", json |-> "", token |-> "", message |-> "",
          text |-> Empty, sender |-> NoSender, fault |-> ""]

Handlers == {"api", "main"}

\* The Sunday before today's week, the Monday that opens it and the Monday
\* after it.
AddDays == {week_range(today).start - 1, week_range(today).start,
            week_range(today).start + 7}

Malformed(h) ==
    {Post(h, j, "s3cret", "object", Show(NoTok), NoSender, "none") : j \in {"invalid", "nonobject"}}
    \cup {Post(h, "object", "s3cret", "nonobject", Show(NoTok), NoSender, "none")}

Unauthorized(h) ==
    {Post(h, "object", tk, "object", tx, Asha, "none") :
        tk \in {"absent", "wrong"},
        tx \in {Empty, Show(NoTok), Add(Iso(week_range(today).start), Iso(week_range(today).start))}}

Commands(h) ==
    {Post(h, "object", "s3cret", "object", tx, NoSender, "none") : tx \in {Empty, Other}}
    \cup {Post(h, "object", "s3cret", "object", Add(Iso(f), Iso(t)), Asha, "none") :
            f \in AddDays, t \in AddDays}
    \cup {Post(h, "object", "s3cret", "object",
               Add(Iso(week_range(today).start), Iso(week_range(today).start)), NoSender, "none")}
    \cup {Post(h, "object", "s3cret", "object",
               Add(DateTok("%d%b%y", week_range(today).start),
                   DateTok("%d/%m/%y", week_range(today).start + 7)), NoSender, "none")}
    \cup {Post(h, "object", "s3cret", "object",
               Add(Word(<<"s","o","o","n">>), Iso(week_range(today).start)), Asha, "none")}
    \cup {Post(h, "object", "s3cret", "object", Show(w), NoSender, "none") :
            w \in {NoTok, Word(<<"n","e","x","t">>), Word(<<"N","E","X","T">>),
                   Iso(week_range(today).start - 1),
                   DateTok("%d%b%y", week_range(today).start - 1),
                   DateTok("%d/%m/%Y", week_range(today).start - 1),
                   Word(<<"s","o","o","n">>)}}

Faulty(h) ==
    {Post(h, "object", "s3cret", "object", tx, Asha, f) :
        tx \in {Show(NoTok), Add(Iso(week_range(today).start), Iso(week_range(today).start))},
        f \in {"connect", "schema", "statement"}}
    \cup {Post(h, "object", "s3cret", "object", Other, Asha, "connect")}

Payloads(h) == Malformed(h) \cup Unauthorized(h) \cup Commands(h) \cup Faulty(h)

ConcPayloads(h) ==
    {Post(h, "object", "s3cret", "object", tx, Asha, "none") :
        tx \in {Show(NoTok), Add(Iso(week_range(today).start), Iso(week_range(today).start))}}

\* ------------------------------------------------------------------ replies
\* A response as the caller sees it: the HTTP status; kind "content" (a JSON
\* object with a content field), "no_response" ({"response_not_required":
\* true}), "health", or "transport_error" (the framework's 500 for an
\* exception that left the handler); text names the message, detail the
\* exception message interpolated into it.
NoRows == <<>>
Reply(st, k, t, d) ==
    [status |-> st, kind |-> k, text |-> t, detail |-> d, id |-> 0, win |-> NoWin, rows |-> NoRows]
NoReply == Reply(0, "none", "", "")
Content(st, t, d) == Reply(st, "content", t, d)
Added(id) == [Content(200, "added", "") EXCEPT !.id = id]
Listing(w, rows) ==
    [Content(200, IF rows = <<>> THEN "no_leave" ELSE "leave_for", "")
        EXCEPT !.win = w, !.rows = rows]
Unhandled == Reply(500, "transport_error", "Internal Server Error", "")

\* ---------------------------------------------------------------- the store
Row(id, sender_id, sender_name, start, end, reason) ==
    [id |-> id, user_id |-> sender_id, user_name |-> sender_name,
     start_date |-> start, end_date |-> end, reason |-> reason]

\* SELECT user_name, start_date, end_date, reason
Columns(row) ==
    [user_name |-> row.user_name, start_date |-> row.start_date,
     end_date |-> row.end_date, reason |-> row.reason]

Overlaps_exclusive(row, ws, we) == ~(row.end_date <= ws \/ row.start_date >= we)

\* WHERE NOT (end_date < %s OR start_date > %s)
Overlaps(row, ws, we) == ~(row.end_date < ws \/ row.start_date > we)

\* Ordinal order of the user names the model uses.
NamesAscending == <<"Asha", "Unknown">>
NameRank(n) == CHOOSE i \in DOMAIN NamesAscending : NamesAscending[i] = n

\* ORDER BY start_date ASC, user_name ASC
OrderedBefore(a, b) ==
    \/ a.start_date < b.start_date
    \/ a.start_date = b.start_date /\ NameRank(a.user_name) <= NameRank(b.user_name)

\* The results the SELECT may return: the matching rows, each once, in an
\* order that agrees with ORDER BY (rows that tie may come in either order).
Select(table, ws, we) ==
    LET M == {i \in DOMAIN table : Overlaps(table[i], ws, we)}
        n == Cardinality(M)
    IN  {[k \in 1..n |-> Columns(table[f[k]])] :
            f \in {g \in [1..n -> M] :
                    /\ \A i, j \in 1..n : i # j => g[i] # g[j]
                    /\ \A i, j \in 1..n : i < j => OrderedBefore(table[g[i]], table[g[j]])}}

Commit_upsert(table, rows) ==
    LET same(a, b) == a.user_id = b.user_id /\ a.start_date = b.start_date
                        /\ a.end_date = b.end_date
    IN  IF rows # <<>> /\ \E i \in DOMAIN table : same(table[i], rows[1])
        THEN [i \in DOMAIN table |-> IF same(table[i], rows[1]) THEN rows[1] ELSE table[i]]
        ELSE table \o rows

\* The commit of Connection.__exit__: the rows inserted on the connection
\* become part of the table.
Commit(table, rows) == table \o rows

\* ---------------------------------------------------------------- handlers
\* What one run of a handler leaves behind when it reaches the end of the
\* request or the body of the with block: where it stands, the state of its
\* connection, the rows it inserted, the response already written to the
\* caller and the response still to be delivered.
Out(p, c, t, written, pending) ==
    [pc |-> p, conn |-> c, txn |-> t, resp |-> written, ret |-> pending]
Answer(c, r) == Out("done", c, <<>>, r, NoReply)

\* sender_full_name / sender_id with their defaults.
sender_name(p) == IF p.sender.present THEN p.sender.name ELSE "Unknown"
sender_id(p) == IF p.sender.present THEN p.sender.id ELSE 0

EndBeforeStart_swapped(start, end) == start < end

\* if end < start: raise ValueError(...)
EndBeforeStart(start, end) == end < start

\* The body of the add branch (parse both dates, validate, INSERT ...
\* RETURNING id): the outcome is the id of the inserted row, or the message
\* of the exception the branch's except clause catches.
AddBranch(p) ==
    LET start == parse_date(p.text.from)
        end == parse_date(p.text.to)
        fail(e) == [ok |-> FALSE, err |-> e, rows |-> <<>>, id |-> 0]
    IN  IF ~start.ok THEN fail(start.err)
        ELSE IF ~end.ok THEN fail(end.err)
        ELSE IF EndBeforeStart(start.date, end.date) THEN fail("validation")
        ELSE IF p.fault = "statement" THEN fail("store")
        ELSE [ok |-> TRUE, err |-> "", id |-> idseq + 1,
              rows |-> <<Row(idseq + 1, sender_id(p), sender_name(p),
                             start.date, end.date, "")>>]

\* The body of the show branch after the week selector is resolved to w:
\* the SELECT returned rows, or the exception the except clause catches.
ShowBranch(p, w, rows) ==
    IF ~w.ok THEN [ok |-> FALSE, err |-> w.err]
    ELSE IF p.fault = "statement" THEN [ok |-> FALSE, err |-> "store"]
    ELSE [ok |-> TRUE, err |-> ""]

\* api/holidaybot.py handler.do_POST. json_response writes to the caller at
\* once, so the replies of the add and show branches are written inside the
\* with block, before Connection.__exit__ commits.
do_POST(p, rows) ==
    LET generic == Content(200, "something_wrong", "") IN
    IF cfg.DATABASE_URL = "" THEN Answer("never", Content(500, "misconfigured", ""))
    ELSE IF p.json = "invalid" THEN Answer("never", Content(400, "invalid_json", ""))
    ELSE IF p.json = "nonobject" THEN Answer("never", generic)
    ELSE IF cfg.OUTGOING_WEBHOOK_TOKEN # "" /\ p.token # cfg.OUTGOING_WEBHOOK_TOKEN
    THEN Answer("never", Reply(403, "no_response", "", ""))
    ELSE IF p.message = "nonobject" THEN Answer("never", generic)
    ELSE IF p.text.cmd = "empty" THEN Answer("never", Content(200, "didnt_get", ""))
    ELSE IF p.fault = "connect" THEN Answer("failed", generic)
    ELSE IF p.fault = "schema" THEN Answer("closed", generic)
    ELSE IF p.text.cmd = "add"
    THEN LET a == AddBranch(p)
         IN  IF a.ok THEN Out("inblock", "open", a.rows, Added(a.id), NoReply)
             ELSE Out("inblock", "open", <<>>, Content(200, "could_not_add", a.err), NoReply)
    ELSE IF p.text.cmd = "show"
    THEN LET w == parse_week_selector(p.text.week, today)
             s == ShowBranch(p, w, rows)
         IN  IF s.ok THEN Out("inblock", "open", <<>>, Listing(w, rows), NoReply)
             ELSE Out("inblock", "open", <<>>, Content(200, "could_not_show", s.err), NoReply)
    ELSE Out("inblock", "open", <<>>, NoReply, Content(200, "didnt_understand", ""))

\* main.py holidaybot. The handler returns its reply, so the caller gets it
\* after the with block is left; an exception nothing catches leaves the
\* handler and the framework answers 500. psycopg.connect(None) falls back to
\* the libpq defaults, which do not lead to the store.
holidaybot(p, rows) ==
    IF p.json # "object" THEN Answer("never", Unhandled)
    ELSE IF cfg.OUTGOING_WEBHOOK_TOKEN # "" /\ p.token # cfg.OUTGOING_WEBHOOK_TOKEN
    THEN Answer("never", Reply(200, "no_response", "", ""))
    ELSE IF p.message = "nonobject" THEN Answer("never", Unhandled)
    ELSE IF p.text.cmd = "empty" THEN Answer("never", Content(200, "usage", ""))
    ELSE IF cfg.DATABASE_URL = "" \/ p.fault = "connect" THEN Answer("failed", Unhandled)
    ELSE IF p.fault = "schema" THEN Answer("closed", Unhandled)
    ELSE IF p.text.cmd = "add"
    THEN LET a == AddBranch(p)
         IN  IF a.ok THEN Out("inblock", "open", a.rows, NoReply, Added(a.id))
             ELSE Out("inblock", "open", <<>>, NoReply, Content(200, "error_usage", a.err))
    ELSE IF p.text.cmd = "show"
    THEN LET w == parse_week(p.text.week, today)
             s == ShowBranch(p, w, rows)
         IN  IF s.ok THEN Out("inblock", "open", <<>>, NoReply, Listing(w, rows))
             ELSE Out("inblock", "open", <<>>, NoReply, Content(200, "error_usage", s.err))
    ELSE Out("inblock", "open", <<>>, NoReply, Content(200, "usage", ""))

\* The results the show branch's SELECT may return for request p (the empty
\* result when p does not reach a SELECT).
Selected(p) ==
    LET w == IF p.handler = "api" THEN parse_week_selector(p.text.week, today)
             ELSE parse_week(p.text.week, today)
    IN  IF p.text.cmd = "show" /\ w.ok THEN Select(leaves, w.ws, w.we) ELSE {<<>>}

\* ----------------------------------------------------------------- actions
Quiet == \A s \in Slots : pc[s] = "idle"

\* Slot r receives request p and runs its handler up to the end of the
\* request or to the end of the body of the with block.
Serve(r, p, o) ==
    /\ pc[r] = "idle"
    /\ served < MaxRequests
    /\ served' = served + 1
    /\ req' = [req EXCEPT ![r] = p]
    /\ pc' = [pc EXCEPT ![r] = o.pc]
    /\ conn' = [conn EXCEPT ![r] = o.conn]
    /\ txn' = [txn EXCEPT ![r] = o.txn]
    /\ resp' = [resp EXCEPT ![r] = o.resp]
    /\ ret' = [ret EXCEPT ![r] = o.ret]
    /\ idseq' = idseq + Len(o.txn)
    /\ UNCHANGED <<leaves, cfg, today, calc>>

ApiPost(r) ==
    /\ Quiet
    /\ \E p \in Payloads("api") : \E rows \in Selected(p) : Serve(r, p, do_POST(p, rows))

MainPost(r) ==
    /\ Quiet
    /\ \E p \in Payloads("main") : \E rows \in Selected(p) : Serve(r, p, holidaybot(p, rows))

\* do_GET / health: the probe answers at once and touches nothing else.
Health(r) ==
    /\ Quiet
    /\ \E h \in Handlers :
          Serve(r, Get(h), Answer("never", Reply(200, "health", "", "")))

ApiPostConc(r) ==
    \E p \in ConcPayloads("api") : \E rows \in Selected(p) : Serve(r, p, do_POST(p, rows))

MainPostConc(r) ==
    \E p \in ConcPayloads("main") : \E rows \in Selected(p) : Serve(r, p, holidaybot(p, rows))

\* Leaving the with block: Connection.__exit__ commits and closes; then the
\* pending reply, if any, reaches the caller. The store operations that may
\* fail are the connection, ensure_schema and the INSERT or SELECT; the
\* commit is taken to succeed.
Exit(r) ==
    /\ pc[r] = "inblock"
    /\ leaves' = Commit(leaves, txn[r])
    /\ txn' = [txn EXCEPT ![r] = <<>>]
    /\ conn' = [conn EXCEPT ![r] = "closed"]
    /\ resp' = [resp EXCEPT ![r] = IF ret[r] # NoReply THEN ret[r] ELSE @]
    /\ ret' = [ret EXCEPT ![r] = NoReply]
    /\ pc' = [pc EXCEPT ![r] = "done"]
    /\ UNCHANGED <<idseq, cfg, today, req, served, calc>>

\* The exchange is over; the slot is free for the next request.
Finish(r) ==
    /\ pc[r] = "done"
    /\ pc' = [pc EXCEPT ![r] = "idle"]
    /\ req' = [req EXCEPT ![r] = NoReq]
    /\ conn' = [conn EXCEPT ![r] = "never"]
    /\ resp' = [resp EXCEPT ![r] = NoReply]
    /\ UNCHANGED <<leaves, idseq, cfg, today, txn, ret, served, calc>>

\* ----------------------------------------------------- the pure week functions
NoRange == [start |-> 0, end |-> 0]
NoCalc == [sel |-> NoTok, called |-> {}, range |-> NoRange, api |-> NoWin, main |-> NoWin]

Selectors ==
    {NoTok}
    \cup {Word(cs) : cs \in {<<"t","h","i","s">>, <<"T","h","i","s">>, <<"T","H","I","S">>,
                            <<"c","u","r","r","e","n","t">>, <<"C","u","r","r","e","n","t">>,
                            <<"n","e","x","t">>, <<"N","e","x","t">>, <<"N","E","X","T">>,
                            <<"s","o","o","n">>, <<"4","2">>}}
    \cup {DateTok(DATE_FORMATS[i], today + 1) : i \in DOMAIN DATE_FORMATS}

CallWeekRange ==
    /\ "week_range" \notin calc.called
    /\ calc' = [calc EXCEPT !.called = @ \cup {"week_range"}, !.range = week_range(today)]
    /\ UNCHANGED <<sysvars, today>>

CallParseWeekSelector ==
    /\ "parse_week_selector" \notin calc.called
    /\ calc' = [calc EXCEPT !.called = @ \cup {"parse_week_selector"},
                            !.api = parse_week_selector(calc.sel, today)]
    /\ UNCHANGED <<sysvars, today>>

CallParseWeek ==
    /\ "parse_week" \notin calc.called
    /\ calc' = [calc EXCEPT !.called = @ \cup {"parse_week"},
                            !.main = parse_week(calc.sel, today)]
    /\ UNCHANGED <<sysvars, today>>

\* ------------------------------------------------------------ specifications
AtRest ==
    /\ leaves = <<>>
    /\ idseq = 0
    /\ pc = [r \in Slots |-> "idle"]
    /\ req = [r \in Slots |-> NoReq]
    /\ conn = [r \in Slots |-> "never"]
    /\ txn = [r \in Slots |-> <<>>]
    /\ resp = [r \in Slots |-> NoReply]
    /\ ret = [r \in Slots |-> NoReply]
    /\ served = 0

\* One request at a time, any request, any configuration.
Init ==
    /\ AtRest
    /\ cfg \in Configs
    /\ today = FirstDay + 2
    /\ calc = NoCalc

Next ==
    \/ \E r \in Slots : ApiPost(r)
    \/ \E r \in Slots : MainPost(r)
    \/ \E r \in Slots : Health(r)
    \/ \E r \in Slots : Exit(r)
    \/ \E r \in Slots : Finish(r)

Spec == Init /\ [][Next]_vars

\* Requests in flight together, each on its own connection, store and
\* configuration in order.
InitConc ==
    /\ AtRest
    /\ cfg = [DATABASE_URL |-> "postgres://store", OUTGOING_WEBHOOK_TOKEN |-> "s3cret"]
    /\ today = FirstDay + 2
    /\ calc = NoCalc

NextConc ==
    \/ \E r \in Slots : ApiPostConc(r)
    \/ \E r \in Slots : MainPostConc(r)
    \/ \E r \in Slots : Exit(r)
    \/ \E r \in Slots : Finish(r)

SpecConc == InitConc /\ [][NextConc]_vars

\* The week functions applied to any day and any selector.
InitWeek ==
    /\ AtRest
    /\ cfg = [DATABASE_URL |-> "postgres://store", OUTGOING_WEBHOOK_TOKEN |-> ""]
    /\ today \in Days
    /\ calc \in {[NoCalc EXCEPT !.sel = s] : s \in Selectors}

NextWeek ==
    \/ CallWeekRange
    \/ CallParseWeekSelector
    \/ CallParseWeek

SpecWeek == InitWeek /\ [][NextWeek]_vars

\* ------------------------------------------------------------------- claims
Range(f) == {f[i] : i \in DOMAIN f}

\* A POST whose body is a JSON object of the expected shape.
WellShaped(p) == p.method = "POST" /\ p.json = "object" /\ p.message = "object"

\* The request's token fails the configured shared secret.
TokenMismatch(p) ==
    /\ p.method = "POST" /\ p.json = "object"
    /\ cfg.OUTGOING_WEBHOOK_TOKEN # "" /\ p.token # cfg.OUTGOING_WEBHOOK_TOKEN

\* C1: every POST whose body is well-formed JSON ends with a reply that
\* carries a content field (or with the no-response signal, on a token
\* mismatch), whatever fails on the way: no failure leaves the handler as a
\* transport-level error.
C1_AlwaysTextReply ==
    \A r \in Slots :
        (pc[r] = "done" /\ WellShaped(req[r])) =>
            \/ resp[r].kind = "content"
            \/ resp[r].kind = "no_response" /\ TokenMismatch(req[r])

\* C2: once the confirmation of an add has reached the caller, every show
\* command that starts afterwards, with a window the record's interval
\* intersects, lists the record.
C2_ShowAfterConfirmationListsRecord ==
    [][\A a, s \in Slots :
        LET listing == IF resp'[s] # NoReply THEN resp'[s] ELSE ret'[s]
        IN  (/\ a # s
             /\ resp[a].text = "added"
             /\ pc[s] = "idle" /\ pc'[s] # "idle"
             /\ req'[s].text.cmd = "show"
             /\ listing.win.ok)
            => \A row \in Range(leaves) \cup Range(txn[a]) :
                  (/\ row.id = resp[a].id
                   /\ row.start_date <= listing.win.we
                   /\ row.end_date >= listing.win.ws)
                  => \E k \in DOMAIN listing.rows : listing.rows[k] = Columns(row)]_vars

\* C3: a request whose token fails the configured secret gets the
\* no-response signal and makes no store access, whatever else the request
\* and the configuration hold.
C3_MismatchGetsNoResponse ==
    \A r \in Slots :
        (pc[r] = "done" /\ TokenMismatch(req[r])) =>
            resp[r].kind = "no_response" /\ conn[r] = "never"

\* The add command of request p has two dates that parse, the second earlier
\* than the first.
Reversed(p) ==
    /\ p.method = "POST" /\ p.text.cmd = "add"
    /\ p.text.from.kind = "date" /\ p.text.to.kind = "date"
    /\ p.text.to.day < p.text.from.day

\* The reply of slot r, written already or still to be delivered.
TheReply(r) == IF resp[r] # NoReply THEN resp[r] ELSE ret[r]

\* C4: an add command whose to date is earlier than its from date inserts no
\* row and is never confirmed, and gets the validation error as its reply
\* whenever it reaches the add branch; every row of the table, committed or
\* about to be, has end_date >= start_date.
C4_EndNotBeforeStart ==
    /\ \A row \in Range(leaves) : row.end_date >= row.start_date
    /\ \A r \in Slots :
        /\ \A row \in Range(txn[r]) : row.end_date >= row.start_date
        /\ (pc[r] # "idle" /\ Reversed(req[r])) =>
              /\ txn[r] = <<>>
              /\ TheReply(r).text # "added"
              /\ (WellShaped(req[r]) /\ conn[r] \in {"open", "closed"}
                    /\ req[r].fault \in {"none", "statement"})
                  => (TheReply(r).kind = "content" /\ TheReply(r).detail = "validation")

C4_Witness ==
    \E r \in Slots :
        /\ pc[r] = "done" /\ Reversed(req[r])
        /\ resp[r].detail = "validation"
        /\ leaves # <<>>

\* The number of positions of sequence s that hold c.
Count(s, c) == Cardinality({k \in DOMAIN s : s[k] = c})

\* C5: a show command lists exactly the committed rows whose interval
\* [start_date, end_date] meets the window [ws, we] its reply names: each such
\* row once (a row on a boundary day included), no other row, and the "no
\* leave" reply exactly when there is none.
C5_ShowListsExactlyOverlapping ==
    [][\A r \in Slots :
        LET listing == IF resp'[r] # NoReply THEN resp'[r] ELSE ret'[r]
            ws == listing.win.ws
            we == listing.win.we
            hits == {i \in DOMAIN leaves :
                        leaves[i].end_date >= ws /\ leaves[i].start_date <= we}
        IN  (/\ pc[r] = "idle" /\ pc'[r] = "inblock"
             /\ req'[r].text.cmd = "show"
             /\ listing.text \in {"no_leave", "leave_for"})
            => /\ listing.win.ok
               /\ Len(listing.rows) = Cardinality(hits)
               /\ \A i \in hits :
                     Count(listing.rows, Columns(leaves[i]))
                        = Cardinality({j \in hits : Columns(leaves[j]) = Columns(leaves[i])})
               /\ (listing.text = "no_leave") <=> (hits = {})]_vars

C5_Witness ==
    \E r \in Slots :
        /\ pc[r] = "done" /\ req[r].text.cmd = "show"
        /\ resp[r].text = "leave_for"
        /\ \E k \in DOMAIN resp[r].rows :
              /\ resp[r].rows[k].end_date = resp[r].win.ws
              /\ resp[r].rows[k].start_date < resp[r].win.ws
        /\ \E i \in DOMAIN leaves : leaves[i].end_date < resp[r].win.ws
        /\ Len(resp[r].rows) < Len(leaves)

\* C6: the table is append-only. The step that completes a confirmed add
\* appends exactly one row, with the confirmed id, and keeps every row that
\* was there; every other step leaves the table as it is.
C6_AppendOnly ==
    [][IF \E r \in Slots : pc[r] # "done" /\ pc'[r] = "done" /\ resp'[r].text = "added"
       THEN \E r \in Slots :
               /\ pc[r] # "done" /\ pc'[r] = "done" /\ resp'[r].text = "added"
               /\ Len(leaves') = Len(leaves) + 1
               /\ SubSeq(leaves', 1, Len(leaves)) = leaves
               /\ leaves'[Len(leaves')].id = resp'[r].id
               /\ \A i \in DOMAIN leaves : leaves[i].id # resp'[r].id
       ELSE leaves' = leaves]_vars

C6_Witness ==
    \E i, j \in DOMAIN leaves :
        /\ i < j
        /\ leaves[i].id # leaves[j].id
        /\ Columns(leaves[i]) = Columns(leaves[j])
        /\ leaves[i].user_id = leaves[j].user_id

\* The add or show command of slot r met a failure of the store.
StoreFailed(r) ==
    /\ WellShaped(req[r]) /\ req[r].text.cmd \in {"add", "show"}
    /\ \/ req[r].fault = "connect" /\ conn[r] = "failed"
       \/ req[r].fault = "schema" /\ conn[r] = "closed"
       \/ req[r].fault = "statement" /\ conn[r] \in {"open", "closed"}

\* C7: a store failure during an add or show command is answered with the
\* generic "something went wrong" reply, and no reply carries the store's own
\* error message.
C7_StoreFailureIsGeneric ==
    \A r \in Slots :
        /\ resp[r].detail # "store"
        /\ (pc[r] = "done" /\ StoreFailed(r)) =>
              (resp[r].kind = "content" /\ resp[r].text = "something_wrong")

\* C8: a request whose body is not JSON, or is JSON of another shape than the
\* expected one, gets a 4xx status and makes no store access.
C8_MalformedGetsClientError ==
    \A r \in Slots :
        (pc[r] = "done" /\ req[r].method = "POST" /\ ~WellShaped(req[r])) =>
            /\ resp[r].status \in 400..499
            /\ conn[r] = "never"

\* C9: a week selector that is this, current or next in any letter case gives,
\* in parse_week_selector (api/holidaybot.py) and in parse_week (main.py)
\* alike, the week of today labelled "this week", respectively the week of
\* today + 7 labelled "next week".
C9_SelectorCaseInsensitive ==
    LET word == lower(calc.sel.chars)
        monday(d) == d - ((d - 1) % 7)
        expect(d, l) ==
            \A w \in {calc.api, calc.main} :
                w.ok /\ w.ws = monday(d) /\ w.we = monday(d) + 6 /\ w.label = l
    IN  ({"parse_week_selector", "parse_week"} \subseteq calc.called /\ calc.sel.kind = "word")
        => /\ word \in {<<"t","h","i","s">>, <<"c","u","r","r","e","n","t">>}
                => expect(today, "this week")
           /\ word = <<"n","e","x","t">> => expect(today + 7, "next week")

\* C10: week_range(d) is (start, end) with start a Monday, end = start + 6
\* and start <= d <= end, and week_range gives that same window for each of
\* its seven days.
C10_WeekRange ==
    "week_range" \in calc.called =>
        LET w == calc.range
        IN  /\ (w.start - 1) % 7 = 0
            /\ w.end = w.start + 6
            /\ w.start <= today /\ today <= w.end
            /\ \A x \in w.start..w.end : week_range(x) = w

C10_Witness ==
    /\ "week_range" \in calc.called
    /\ (today - 1) % 7 = 6
    /\ calc.range.start = today - 6
    /\ calc.range.end = today

====
